---- MODULE Spec2Model ----
(***************************************************************************)
(* A model of models/build_models.py (Masked Diffusion Transformer).       *)
(*                                                                         *)
(* Tensors are functions over 0-based index ranges, as in the source.      *)
(* Real-valued entries are integers; a fraction is an integer numerator    *)
(* over a power-of-two denominator, so that the float arithmetic of the    *)
(* source is exact on every value the model draws.                         *)
(***************************************************************************)
EXTENDS Integers, Sequences, FiniteSets, TLC

VARIABLES
    rm_in,      \* random_masking: the call's arguments (x, mask_ratio), or Idle
    rm_out,     \* random_masking: its locals and results after the call, or Idle
    rb_mod,     \* Attention.rel_pos_bias: the RelativePositionBias module, or Idle
    rb_in,      \* Attention.forward: the call's B and ids_keep
    rb_out,     \* Attention.forward: rp_bias after the call, or Idle
    up_in,      \* unpatchify: the image under test and the layer's p and c
    up_x,       \* unpatchify: the token tensor x passed to it, or Idle
    up_out,     \* unpatchify: its result, or Idle
    le_mod,     \* LabelEmbedder: the module's fields after __init__, or Idle
    le_in,      \* LabelEmbedder: constructor and forward arguments
    le_out,     \* LabelEmbedder.forward: the labels looked up, or the error raised
    cf_in,      \* forward_with_cfg: the model's channels, the call's arguments
                \* and what self.forward returns
    cf_out,     \* forward_with_cfg: real_cfg_scale and the returned tensor, or Idle
    cfg,        \* MDT: the constructor's arguments
    net,        \* MDT: the instance's fields and parameters after __init__, or Idle
    trained,    \* MDT: an optimizer has stepped the parameters since __init__
    pc,         \* MDT: where the instance is: "new", "ctor_raised", "ready",
                \* or inside forward: "loop", "final", "done", "raised"
    fw_call,    \* forward: the call's embedded inputs and enable_mask, or Idle
    fw_x,       \* forward: the token tensor x ([N][length])
    fw_masked_stage, \* forward: the local flag
    fw_mask,    \* forward: the binary mask of random_masking, or Idle
    fw_ids_restore, \* forward: ids_restore of random_masking, or Idle
    fw_ids_keep, \* forward: ids_keep of random_masking, or Idle
    fw_i,       \* forward: the block loop's index
    fw_log,     \* forward: the splices and block calls made so far, in order
    si_self,    \* forward_side_interpolater: the fields of the module it reads
    si_in,      \* forward_side_interpolater: the sequence before masking, c
                \* and mask_ratio
    si_rm,      \* forward_side_interpolater: what random_masking returned and
                \* the reduced sequence as it reaches the splice, or Idle
    si_out,     \* forward_side_interpolater: its result and intermediates, or Idle
    fw_out      \* forward: the returned image tensor, or the error raised (by
                \* forward or by the constructor), or Idle

rmVars == <<rm_in, rm_out>>
rbVars == <<rb_mod, rb_in, rb_out>>
upVars == <<up_in, up_x, up_out>>
leVars == <<le_mod, le_in, le_out>>
cfVars == <<cf_in, cf_out>>
fwLocals == <<fw_call, fw_x, fw_masked_stage, fw_mask, fw_ids_restore, fw_ids_keep,
              fw_i, fw_log, fw_out>>
fwVars == <<cfg, net, trained, pc, fwLocals>>
siVars == <<si_self, si_in, si_rm, si_out>>
vars == <<rmVars, rbVars, upVars, leVars, cfVars, fwVars, siVars>>

\* Everything but one component, for the actions of that component.
notRm == <<rbVars, upVars, leVars, cfVars, fwVars, siVars>>
notRb == <<rmVars, upVars, leVars, cfVars, fwVars, siVars>>
notUp == <<rmVars, rbVars, leVars, cfVars, fwVars, siVars>>
notLe == <<rmVars, rbVars, upVars, cfVars, fwVars, siVars>>
notCf == <<rmVars, rbVars, upVars, leVars, fwVars, siVars>>
notFw == <<rmVars, rbVars, upVars, leVars, cfVars, siVars>>
notSi == <<rmVars, rbVars, upVars, leVars, cfVars, fwVars>>

(***************************************************************************)
(* Bounds of the model.                                                    *)
(***************************************************************************)
MaxBatch == 2       \* batch sizes N are 1..MaxBatch
MaxLen == 3         \* sequence lengths L are 1..MaxLen
MaskBits == 2       \* mask ratios are multiples of 1 / 2^MaskBits

MaskDen == 2 ^ MaskBits
NoiseVals == {0, 1}             \* levels of torch.rand: equal draws tie
Idle == <<>>                    \* a component that has not been called
None == <<>>                    \* Python's None
rmIdle == rm_in = Idle /\ rm_out = Idle
rbIdle == rb_mod = Idle /\ rb_in = Idle /\ rb_out = Idle
upIdle == up_in = Idle /\ up_x = Idle /\ up_out = Idle
leIdle == le_mod = Idle /\ le_in = Idle /\ le_out = Idle
cfIdle == cf_in = Idle /\ cf_out = Idle
fwLocalsIdle ==
    /\ fw_call = Idle /\ fw_x = Idle /\ fw_masked_stage = FALSE /\ fw_mask = Idle
    /\ fw_ids_restore = Idle /\ fw_ids_keep = Idle /\ fw_i = 0 /\ fw_log = <<>>
    /\ fw_out = Idle
siIdle == si_self = Idle /\ si_in = Idle /\ si_rm = Idle /\ si_out = Idle
fwIdle == cfg = Idle /\ net = Idle /\ trained = FALSE /\ pc = "idle" /\ fwLocalsIdle
Some(v) == <<v>>                \* a present optional value
Val(o) == o[1]

Range(n) == 0 .. (n - 1)       \* range(n) / torch.arange(n)

Min(a, b) == IF a < b THEN a ELSE b
Max(a, b) == IF a > b THEN a ELSE b

\* int(p / q) for q > 0: Python's int() truncates toward zero.
TruncDiv(p, q) == IF p >= 0 THEN p \div q ELSE -((-p) \div q)

\* The indices a[:k] selects from a sequence of length n (Python slicing:
\* a negative k counts from the end, and the result is clamped to 0..n).
SliceTo(n, k) == Range(IF k < 0 THEN Max(n + k, 0) ELSE Min(k, n))

(***************************************************************************)
(* torch.argsort(v) along the last axis, ascending.  The default sort is   *)
(* not stable: equal entries may come out in any order, so the result is   *)
(* one of a set of index orders.                                           *)
(***************************************************************************)
RECURSIVE SortOrders(_, _)
SortOrders(v, S) ==
    IF S = {} THEN {<<>>}
    ELSE LET mins == {i \in S : \A j \in S : v[i] <= v[j]}
         IN UNION {{<<m>> \o r : r \in SortOrders(v, S \ {m})} : m \in mins}

argsort(v) == {[k \in DOMAIN v |-> s[k + 1]] : s \in SortOrders(v, DOMAIN v)}

\* torch.gather(src, dim=1, index) on one sample: out[k] = src[index[k]].
gather(src, index) == [k \in DOMAIN index |-> src[index[k]]]

(***************************************************************************)
(* MDT.random_masking                                                      *)
(***************************************************************************)
\* len_keep = int(L * (1 - mask_ratio)), mask_ratio = num / MaskDen.
len_keep_mut(L, num) == TruncDiv(L * num, MaskDen)
len_keep_of(L, num) == TruncDiv(L * (MaskDen - num), MaskDen)

\* ids_restore = torch.argsort(ids_shuffle, dim=1), for one sample.
ids_restore_mut(ids_shuffle) == {ids_shuffle}
ids_restore_of(ids_shuffle) == argsort(ids_shuffle)

\* The index orders torch.argsort(noise) can return for one sample of length
\* L, over every draw noise = torch.rand(L).
ids_shuffle_of(L) == UNION {argsort(noise) : noise \in [Range(L) -> NoiseVals]}

\* One sample's part of random_masking, given its ids_shuffle.
masking_sample(xs, L, len_keep, ids_shuffle) ==
    LET ids_restore == CHOOSE r \in ids_restore_of(ids_shuffle) : TRUE
        keep == SliceTo(L, len_keep)
        ids_keep == [k \in keep |-> ids_shuffle[k]]
        ones == [k \in Range(L) |-> IF k \in keep THEN 0 ELSE 1]
    IN [ids_shuffle |-> ids_shuffle,
        ids_restore |-> ids_restore,
        ids_keep |-> ids_keep,
        x_masked |-> gather(xs, ids_keep),
        mask |-> gather(ones, ids_restore)]

\* random_masking(x, mask_ratio) from its ids_shuffle on: x is [N][L], and
\* ids_shuffle [N][L] holds the argsort of every sample's own noise.
random_masking(x, num, ids_shuffle) ==
    LET N == Cardinality(DOMAIN x)
        L == Cardinality(DOMAIN x[0])
        len_keep == len_keep_of(L, num)
    IN [len_keep |-> len_keep,
        sample |-> [n \in Range(N) |->
                       masking_sample(x[n], L, len_keep, ids_shuffle[n])]]

\* Token sequences the callers pass: every token distinct, or tokens repeating.
TokenInputs(N, L) ==
    {[n \in Range(N) |-> [i \in Range(L) |-> n * L + i]],
     [n \in Range(N) |-> [i \in Range(L) |-> i % 2]]}

RatioNums == (-1) .. (MaskDen + 1)      \* includes ratios outside [0, 1)

InitMasking ==
    /\ rm_in \in {[x |-> x, mask_ratio |-> num] :
                    x \in UNION {TokenInputs(N, L) :
                                   N \in 1 .. MaxBatch, L \in 1 .. MaxLen},
                    num \in RatioNums}
    /\ rm_out = Idle
    /\ rbIdle /\ upIdle /\ leIdle /\ cfIdle /\ fwIdle /\ siIdle

RandomMasking ==
    /\ rm_out = Idle
    /\ \E ids_shuffle \in [DOMAIN rm_in.x -> ids_shuffle_of(Cardinality(DOMAIN rm_in.x[0]))] :
         rm_out' = random_masking(rm_in.x, rm_in.mask_ratio, ids_shuffle)
    /\ UNCHANGED <<rm_in, notRm>>

NextMasking == RandomMasking

SpecMasking == InitMasking /\ [][NextMasking]_vars

rm_N == Cardinality(DOMAIN rm_in.x)
rm_L == Cardinality(DOMAIN rm_in.x[0])
rm_valid == rm_in.mask_ratio >= 0 /\ rm_in.mask_ratio < MaskDen
IsPerm(f, L) == DOMAIN f = Range(L) /\ \A i \in Range(L) : \E k \in Range(L) : f[k] = i
Count(f, v) == Cardinality({k \in DOMAIN f : f[k] = v})

\* C1: after random_masking, for every sample, ids_shuffle and ids_restore
\* are permutations of 0..L-1 and each is the inverse of the other.
C1_PermutationInverse ==
    rm_out # Idle =>
        \A n \in Range(rm_N) :
            LET s == rm_out.sample[n]
            IN /\ IsPerm(s.ids_shuffle, rm_L)
               /\ IsPerm(s.ids_restore, rm_L)
               /\ \A i \in Range(rm_L) :
                    /\ s.ids_shuffle[s.ids_restore[i]] = i
                    /\ s.ids_restore[s.ids_shuffle[i]] = i

\* A batch of two samples of length 3 whose shuffles differ, one of them a
\* 3-cycle (a permutation that is not its own inverse).
C1_Witness ==
    /\ rm_out # Idle
    /\ rm_N = 2 /\ rm_L = 3
    /\ rm_out.sample[0].ids_shuffle = [k \in Range(3) |-> (k + 1) % 3]
    /\ rm_out.sample[1].ids_shuffle # rm_out.sample[0].ids_shuffle

\* C2: for a mask ratio r in [0, 1), every sample keeps exactly
\* floor(L * (1 - r)) tokens, and its restored mask has that many zeros and
\* L - floor(L * (1 - r)) ones.
C2_KeepCount ==
    (rm_out # Idle /\ rm_valid) =>
        LET keep == (rm_L * (MaskDen - rm_in.mask_ratio)) \div MaskDen
        IN \A n \in Range(rm_N) :
            LET s == rm_out.sample[n]
            IN /\ Cardinality(DOMAIN s.ids_keep) = keep
               /\ Cardinality(DOMAIN s.x_masked) = keep
               /\ DOMAIN s.mask = Range(rm_L)
               /\ Count(s.mask, 0) = keep
               /\ Count(s.mask, 1) = rm_L - keep

\* Length 3 at ratio 1/2: floor(1.5) = 1 token kept and 2 removed, and the
\* kept token is not the first one.
C2_Witness ==
    /\ rm_out # Idle
    /\ rm_L = 3 /\ rm_in.mask_ratio * 2 = MaskDen
    /\ rm_out.len_keep = 1
    /\ rm_out.sample[0].mask = [k \in Range(3) |-> IF k = 2 THEN 0 ELSE 1]

(***************************************************************************)
(* RelativePositionBias and Attention.get_masked_rel_bias                  *)
(***************************************************************************)
MaxGrid == 2        \* window sides are 1..MaxGrid
MaxHeads == 2       \* head counts are 1..MaxHeads

List2(a, b) == [d \in Range(2) |-> IF d = 0 THEN a ELSE b]

\* (2 * window_size[0] - 1) * (2 * window_size[1] - 1) + 3
num_relative_distance(ws) == (2 * ws[0] - 1) * (2 * ws[1] - 1) + 3

\* torch.flatten(torch.stack(torch.meshgrid([coords_h, coords_w])), 1):
\* row 0 holds each token's grid row, row 1 its grid column.
coords_flatten(ws) ==
    [d \in Range(2) |->
        [i \in Range(ws[0] * ws[1]) |-> IF d = 0 THEN i \div ws[1] ELSE i % ws[1]]]

\* The relative_position_index buffer RelativePositionBias.__init__ registers.
relative_position_index_mut(ws) ==
    LET cf == coords_flatten(ws)
        L == ws[0] * ws[1]
    IN [i \in Range(L) |-> [j \in Range(L) |->
          (cf[0][i] - cf[0][j] + ws[0] - 1) * (2 * ws[0] - 1)
            + (cf[1][i] - cf[1][j] + ws[1] - 1)]]
relative_position_index(ws) ==
    LET cf == coords_flatten(ws)
        L == ws[0] * ws[1]
        \* coords_flatten[:, :, None] - coords_flatten[:, None, :], permuted (1, 2, 0)
        rc0 == [i \in Range(L) |-> [j \in Range(L) |->
                   [d \in Range(2) |-> cf[d][i] - cf[d][j]]]]
        \* [:, :, 0] += window_size[0] - 1; [:, :, 1] += window_size[1] - 1
        rc1 == [i \in Range(L) |-> [j \in Range(L) |->
                   [d \in Range(2) |-> rc0[i][j][d] + ws[d] - 1]]]
        \* [:, :, 0] *= 2 * window_size[1] - 1
        rc2 == [i \in Range(L) |-> [j \in Range(L) |->
                   [d \in Range(2) |->
                       IF d = 0 THEN rc1[i][j][d] * (2 * ws[1] - 1) ELSE rc1[i][j][d]]]]
    IN [i \in Range(L) |-> [j \in Range(L) |-> rc2[i][j][0] + rc2[i][j][1]]]

\* Values of the learned relative_position_bias_table ([rows][heads]): one with
\* every entry distinct, one with repeating entries.
TableValues(rows, heads) ==
    {[k \in Range(rows) |-> [hd \in Range(heads) |-> k * heads + hd]],
     [k \in Range(rows) |-> [hd \in Range(heads) |-> (k + 2 * hd) % 3]]}

\* RelativePositionBias.forward: [num_heads][L][L].
rel_pos_bias(mod) ==
    LET L == mod.window_size[0] * mod.window_size[1]
        \* self.relative_position_index.view(-1)
        flat == [k \in Range(L * L) |-> mod.relative_position_index[k \div L][k % L]]
        rows == [k \in Range(L * L) |-> mod.relative_position_bias_table[flat[k]]]
        \* .view(L, L, -1)
        viewed == [i \in Range(L) |-> [j \in Range(L) |-> rows[i * L + j]]]
    IN \* .permute(2, 0, 1)
       [hd \in Range(mod.num_heads) |->
           [i \in Range(L) |-> [j \in Range(L) |-> viewed[i][j][hd]]]]

\* torch.gather(src, dim, index) for 4-d tensors and dim 2 or 3; the result
\* has the shape of index.
gather4(src, dim, index) ==
    [n \in DOMAIN index |-> [hd \in DOMAIN index[n] |->
        [a \in DOMAIN index[n][hd] |-> [b \in DOMAIN index[n][hd][a] |->
            IF dim = 2 THEN src[n][hd][index[n][hd][a][b]][b]
            ELSE src[n][hd][a][index[n][hd][a][b]]]]]]

\* The index of the second gather of get_masked_rel_bias:
\* ids_keep.unsqueeze(dim=1).unsqueeze(dim=2).repeat(1, heads, K, 1)
index_cols_mut(B, heads, ids_keep) ==
    [n \in Range(B) |-> [hd \in heads |->
        [a \in DOMAIN ids_keep[n] |-> [b \in DOMAIN ids_keep[n] |-> ids_keep[n][a]]]]]
index_cols(B, heads, ids_keep) ==
    [n \in Range(B) |-> [hd \in heads |->
        [a \in DOMAIN ids_keep[n] |-> [b \in DOMAIN ids_keep[n] |-> ids_keep[n][b]]]]]

\* Attention.get_masked_rel_bias(B, ids_keep): ids_keep is [B][K].
get_masked_rel_bias(mod, B, ids_keep) ==
    LET full == rel_pos_bias(mod)
        heads == DOMAIN full
        L == Cardinality(DOMAIN full[0])
        \* rel_pos_bias.unsqueeze(dim=0).repeat(B, 1, 1, 1)
        rep == [n \in Range(B) |-> full]
        \* ids_keep.unsqueeze(1).unsqueeze(-1).repeat(1, heads, 1, L)
        index_rows == [n \in Range(B) |-> [hd \in heads |->
                         [a \in DOMAIN ids_keep[n] |-> [j \in Range(L) |-> ids_keep[n][a]]]]]
        masked_rows == gather4(rep, 2, index_rows)
    IN gather4(masked_rows, 3, index_cols(B, heads, ids_keep))

\* Kept-token indices a caller passes for a batch of B samples of length L:
\* K entries walking the sequence from a start, forwards or backwards, each
\* sample from its own start (the identity range is the walk from 0).
KeepInputs(B, L) ==
    {[n \in Range(B) |-> [a \in Range(K) |-> (s + n + a * step) % L]] :
        K \in 0 .. L, s \in Range(L), step \in {1, L - 1}}

InitBias ==
    /\ rb_mod = Idle
    /\ rb_in \in UNION {{[window_size |-> List2(h, w), num_heads |-> nh,
                           B |-> B, ids_keep |-> ik] :
                            nh \in 1 .. MaxHeads,
                            ik \in {None} \cup KeepInputs(B, h * w)} :
                        h \in 1 .. MaxGrid, w \in 1 .. MaxGrid, B \in 1 .. MaxBatch}
    /\ rb_out = Idle
    /\ rmIdle /\ upIdle /\ leIdle /\ cfIdle /\ fwIdle /\ siIdle

\* RelativePositionBias.__init__(window_size, num_heads); trunc_normal_ draws
\* the table.
RelativePositionBiasInit ==
    /\ rb_mod = Idle
    /\ \E table \in TableValues(num_relative_distance(rb_in.window_size), rb_in.num_heads) :
         rb_mod' = [window_size |-> rb_in.window_size,
                    num_heads |-> rb_in.num_heads,
                    num_relative_distance |-> num_relative_distance(rb_in.window_size),
                    relative_position_bias_table |-> table,
                    relative_position_index |-> relative_position_index(rb_in.window_size)]
    /\ UNCHANGED <<rb_in, rb_out, notRb>>

\* Attention.forward, the choice of rp_bias: the gathered bias when ids_keep
\* is given, the full bias otherwise.
AttentionBias ==
    /\ rb_mod # Idle /\ rb_out = Idle
    /\ rb_out' = IF rb_in.ids_keep # None
                 THEN Some(get_masked_rel_bias(rb_mod, rb_in.B, rb_in.ids_keep))
                 ELSE Some(rel_pos_bias(rb_mod))
    /\ UNCHANGED <<rb_mod, rb_in, notRb>>

\* An optimizer step before the forward call: relative_position_bias_table is
\* a Parameter and is redrawn; relative_position_index is a buffer, which no
\* optimizer touches.
BiasTableTrain ==
    /\ rb_mod # Idle /\ rb_out = Idle
    /\ \E table \in TableValues(rb_mod.num_relative_distance, rb_mod.num_heads) :
         rb_mod' = [rb_mod EXCEPT !.relative_position_bias_table = table]
    /\ UNCHANGED <<rb_in, rb_out, notRb>>

NextBias == RelativePositionBiasInit \/ BiasTableTrain \/ AttentionBias

SpecBias == InitBias /\ [][NextBias]_vars

rb_L == rb_in.window_size[0] * rb_in.window_size[1]

\* C3: the bias get_masked_rel_bias returns is, for every sample n, head hd and
\* positions a, b, the full bias at [hd][ids_keep[n][a]][ids_keep[n][b]]; when
\* ids_keep[n] is the identity range it is the full bias itself.
C3_MaskedBiasGather ==
    (rb_out # Idle /\ rb_in.ids_keep # None) =>
        LET full == rel_pos_bias(rb_mod)
            out == Val(rb_out)
            ids_keep == rb_in.ids_keep
        IN /\ DOMAIN out = Range(rb_in.B)
           /\ \A n \in Range(rb_in.B) :
                /\ DOMAIN out[n] = Range(rb_in.num_heads)
                /\ \A hd \in Range(rb_in.num_heads) :
                     /\ DOMAIN out[n][hd] = DOMAIN ids_keep[n]
                     /\ \A a \in DOMAIN ids_keep[n] :
                          /\ DOMAIN out[n][hd][a] = DOMAIN ids_keep[n]
                          /\ \A b \in DOMAIN ids_keep[n] :
                               out[n][hd][a][b] = full[hd][ids_keep[n][a]][ids_keep[n][b]]
                /\ ids_keep[n] = [k \in Range(rb_L) |-> k] => out[n] = full

\* A gathered bias over a 2 x 2 window for two samples and two heads, kept
\* indices out of order, whose rows and columns differ from the full bias.
C3_Witness ==
    /\ rb_out # Idle /\ rb_in.ids_keep # None
    /\ rb_in.B = 2 /\ rb_in.num_heads = 2 /\ rb_L = 4
    /\ rb_in.ids_keep[0] = [a \in Range(3) |-> (2 + 3 * a) % 4]
    /\ Val(rb_out)[0][1][0][1] # rel_pos_bias(rb_mod)[1][0][1]
    /\ Val(rb_out)[0][1][0][1] # Val(rb_out)[0][1][1][0]

\* The identity range reaches the gather too.
C3_WitnessIdentity ==
    /\ rb_out # Idle /\ rb_in.ids_keep # None /\ rb_L = 4
    /\ \A n \in Range(rb_in.B) : rb_in.ids_keep[n] = [k \in Range(4) |-> k]

(***************************************************************************)
(* MDT.unpatchify                                                          *)
(***************************************************************************)
MaxPatch == 2       \* patch sizes p are 1..MaxPatch
MaxChannels == 2    \* channel counts c are 1..MaxChannels

\* int(n ** 0.5) for n >= 0
ISqrt(n) == CHOOSE k \in 0 .. n : k * k <= n /\ n < (k + 1) * (k + 1)

\* torch.einsum('nhwpqc->nchpwq', x) for one sample, on row-major flat
\* tensors: x has shape (h, w, p, q, c) and the result shape (c, h, p, w, q),
\* with q = p.
einsum_mut(xflat, h, w, p, c) ==
    [m \in Range(c * h * p * w * p) |->
        LET q == m % p
            j == (m \div p) % w
            a == (m \div (p * w)) % p
            i == (m \div (p * w * p)) % h
            ch == m \div (p * w * p * h)
        IN xflat[((((i * w + j) * p + q) * p + a) * c) + ch]]
einsum_nhwpqc_nchpwq(xflat, h, w, p, c) ==
    [m \in Range(c * h * p * w * p) |->
        LET q == m % p
            j == (m \div p) % w
            a == (m \div (p * w)) % p
            i == (m \div (p * w * p)) % h
            ch == m \div (p * w * p * h)
        IN xflat[((((i * w + j) * p + a) * p + q) * c) + ch]]

\* MDT.unpatchify(x) with c = self.out_channels and p the patch size: x is
\* [N][T][E].  The result is the image tensor [N][c][h*p][h*p], or the error
\* the call raises.
unpatchify(x, c, p) ==
    LET T == Cardinality(DOMAIN x[0])
        E == IF T = 0 THEN 0 ELSE Cardinality(DOMAIN x[0][0])
        h == ISqrt(T)
        w == h
    IN IF h * w # T THEN [raised |-> "AssertionError"]
       ELSE IF T * E # h * w * p * p * c THEN [raised |-> "RuntimeError"]
       ELSE [imgs |->
               [n \in DOMAIN x |->
                   LET \* x.reshape(shape=(x.shape[0], h, w, p, p, c))
                       xflat == [k \in Range(T * E) |-> x[n][k \div E][k % E]]
                       y == einsum_nhwpqc_nchpwq(xflat, h, w, p, c)
                   IN \* x.reshape(shape=(x.shape[0], c, h * p, h * p))
                      [ch \in Range(c) |-> [r \in Range(h * p) |-> [col \in Range(h * p) |->
                          y[(ch * (h * p) + r) * (h * p) + col]]]]]]

\* The flattening of an image [N][c][h*p][w*p] into h*w tokens of p*p*c values:
\* row-major over patches, then patch row, patch column, channel.
patch_flatten(img, h, w, p, c) ==
    [n \in DOMAIN img |-> [t \in Range(h * w) |-> [e \in Range(p * p * c) |->
        LET i == t \div w
            j == t % w
            a == e \div (p * c)
            b == (e \div c) % p
            ch == e % c
        IN img[n][ch][i * p + a][j * p + b]]]]

\* Images [N][c][side][side]: every pixel distinct, or one pixel set.
ImageInputs(N, c, side) ==
    LET id(n, ch, r, col) == ((n * c + ch) * side + r) * side + col
    IN {[n \in Range(N) |-> [ch \in Range(c) |-> [r \in Range(side) |-> [col \in Range(side) |->
            id(n, ch, r, col)]]]]}
       \cup
       {[n \in Range(N) |-> [ch \in Range(c) |-> [r \in Range(side) |-> [col \in Range(side) |->
            IF id(n, ch, r, col) = hot THEN 1 ELSE 0]]]] : hot \in Range(N * c * side * side)}

InitUnpatch ==
    /\ up_in \in UNION {{[img |-> img, h |-> h, p |-> p, c |-> c] :
                            img \in ImageInputs(N, c, h * p)} :
                        N \in 1 .. MaxBatch, h \in 1 .. MaxGrid,
                        p \in 1 .. MaxPatch, c \in 1 .. MaxChannels}
    /\ up_x = Idle /\ up_out = Idle
    /\ rmIdle /\ rbIdle /\ leIdle /\ cfIdle /\ fwIdle /\ siIdle

\* The caller flattens the image into the token tensor.
PatchFlatten ==
    /\ up_x = Idle
    /\ up_x' = Some(patch_flatten(up_in.img, up_in.h, up_in.h, up_in.p, up_in.c))
    /\ UNCHANGED <<up_in, up_out, notUp>>

Unpatchify ==
    /\ up_x # Idle /\ up_out = Idle
    /\ up_out' = Some(unpatchify(Val(up_x), up_in.c, up_in.p))
    /\ UNCHANGED <<up_in, up_x, notUp>>

NextUnpatch == PatchFlatten \/ Unpatchify

SpecUnpatch == InitUnpatch /\ [][NextUnpatch]_vars

\* C6: unpatchify inverts the patch flattening: it returns the image the tokens
\* were flattened from, and output pixel (n, ch, i*p+a, j*p+b) is entry
\* (a*p+b)*c+ch of token i*w+j.
C6_UnpatchifyRoundTrip ==
    up_out # Idle =>
        LET x == Val(up_x)
            h == up_in.h
            p == up_in.p
            c == up_in.c
        IN /\ DOMAIN Val(up_out) = {"imgs"}
           /\ Val(up_out).imgs = up_in.img
           /\ \A n \in DOMAIN x : \A ch \in Range(c) :
                \A i \in Range(h), j \in Range(h), a \in Range(p), b \in Range(p) :
                    Val(up_out).imgs[n][ch][i * p + a][j * p + b]
                        = x[n][i * h + j][(a * p + b) * c + ch]

\* A 2 x 2 grid of 2 x 2 patches with 2 channels, every pixel distinct, after
\* unpatchify; the flattening has moved pixels (token 1 starts at column 2).
C6_Witness ==
    /\ up_out # Idle
    /\ up_in.h = 2 /\ up_in.p = 2 /\ up_in.c = 2
    /\ up_in.img[0][1][3][2] = 30
    /\ Val(up_x)[0][1][0] = up_in.img[0][0][0][2]
    /\ Val(up_x)[0][3][7] = up_in.img[0][1][3][3]

(***************************************************************************)
(* LabelEmbedder                                                           *)
(***************************************************************************)
MaxClasses == 2     \* num_classes is 1..MaxClasses

\* dropout_prob and the draws of torch.rand are multiples of 1 / MaskDen:
\* torch.rand draws from [0, 1).
RandNums == 0 .. (MaskDen - 1)
ProbNums == 0 .. MaskDen

\* LabelEmbedder.__init__(num_classes, hidden_size, dropout_prob)
LabelEmbedderInit(num_classes, prob) ==
    LET use_cfg_embedding == prob > 0
    IN [rows |-> num_classes + (IF use_cfg_embedding THEN 1 ELSE 0),
        num_classes |-> num_classes,
        dropout_prob |-> prob]

\* LabelEmbedder.token_drop(labels, force_drop_ids): the label tensors it can
\* return, one for every draw of torch.rand.
token_drop_any(mod, labels, force_drop_ids) ==
    LET drops == IF force_drop_ids = None
                 THEN {[n \in DOMAIN labels |-> rand[n] <= mod.dropout_prob] :
                         rand \in [DOMAIN labels -> RandNums]}
                 ELSE {[n \in DOMAIN labels |-> Val(force_drop_ids)[n] = 1]}
    IN {[n \in DOMAIN labels |-> IF drop_ids[n] THEN mod.num_classes ELSE labels[n]] :
          drop_ids \in drops}
token_drop(mod, labels, force_drop_ids) ==
    LET drops == IF force_drop_ids = None
                 THEN {[n \in DOMAIN labels |-> rand[n] < mod.dropout_prob] :
                         rand \in [DOMAIN labels -> RandNums]}
                 ELSE {[n \in DOMAIN labels |-> Val(force_drop_ids)[n] = 1]}
    IN {[n \in DOMAIN labels |-> IF drop_ids[n] THEN mod.num_classes ELSE labels[n]] :
          drop_ids \in drops}

\* self.embedding_table(labels): the rows looked up, or IndexError.
embedding_table(mod, labels) ==
    IF \E n \in DOMAIN labels : labels[n] < 0 \/ labels[n] >= mod.rows
    THEN [raised |-> "IndexError", labels |-> labels]
    ELSE [embeddings |-> [n \in DOMAIN labels |-> labels[n]], labels |-> labels]

\* LabelEmbedder.forward(labels, train, force_drop_ids): the results it can
\* return.
LabelEmbedder_forward_mut(mod, labels, train, force_drop_ids) ==
    LET dropped == IF train \/ force_drop_ids # None
                   THEN token_drop_any(mod, labels, force_drop_ids)
                   ELSE {labels}
    IN {embedding_table(mod, l) : l \in dropped}
LabelEmbedder_forward(mod, labels, train, force_drop_ids) ==
    LET use_dropout == mod.dropout_prob > 0
        dropped == IF (train /\ use_dropout) \/ force_drop_ids # None
                   THEN token_drop(mod, labels, force_drop_ids)
                   ELSE {labels}
    IN {embedding_table(mod, l) : l \in dropped}

InitLabel ==
    /\ le_mod = Idle /\ le_out = Idle
    /\ le_in \in UNION {{[num_classes |-> nc, dropout_prob |-> prob, labels |-> labels,
                           train |-> train, force_drop_ids |-> force] :
                            prob \in ProbNums, labels \in [Range(N) -> Range(nc)],
                            train \in BOOLEAN,
                            force \in {None} \cup {Some(f) : f \in [Range(N) -> {0, 1}]}} :
                        N \in 1 .. MaxBatch, nc \in 1 .. MaxClasses}
    /\ rmIdle /\ rbIdle /\ upIdle /\ cfIdle /\ fwIdle /\ siIdle

LabelEmbedderConstruct ==
    /\ le_mod = Idle
    /\ le_mod' = LabelEmbedderInit(le_in.num_classes, le_in.dropout_prob)
    /\ UNCHANGED <<le_in, le_out, notLe>>

LabelEmbedderForward ==
    /\ le_mod # Idle /\ le_out = Idle
    /\ le_out' \in LabelEmbedder_forward(le_mod, le_in.labels, le_in.train,
                                          le_in.force_drop_ids)
    /\ UNCHANGED <<le_mod, le_in, notLe>>

NextLabel == LabelEmbedderConstruct \/ LabelEmbedderForward

SpecLabel == InitLabel /\ [][NextLabel]_vars

\* C7 as stated: an embedder built with dropout_prob = 0 looks up exactly the
\* labels passed in, whatever the arguments of forward.
C7_NoSubstitutionAnyCall ==
    (le_out # Idle /\ le_mod.dropout_prob = 0) =>
        le_out.labels = le_in.labels

\* C7, amended: an embedder built with dropout_prob = 0, called without
\* force_drop_ids, looks up exactly the labels passed in and raises nothing,
\* whatever the training flag.
C7_NoSubstitution ==
    (le_out # Idle /\ le_mod.dropout_prob = 0 /\ le_in.force_drop_ids = None) =>
        /\ le_out.labels = le_in.labels
        /\ DOMAIN le_out = {"embeddings", "labels"}
        /\ \A n \in DOMAIN le_in.labels : le_out.embeddings[n] = le_in.labels[n]

\* A training-mode forward of a dropout_prob = 0 embedder on two labels.
C7_Witness ==
    /\ le_out # Idle /\ le_mod.dropout_prob = 0 /\ le_in.force_drop_ids = None
    /\ le_in.train
    /\ le_in.labels = [n \in Range(2) |-> n]
    /\ le_out.embeddings = le_in.labels

(***************************************************************************)
(* Floating-point values: a finite value, an infinity or NaN.  The inputs  *)
(* drawn below keep every finite value an integer, on which the float      *)
(* operations of the source are exact.                                     *)
(***************************************************************************)
F(v) == [k |-> "fin", v |-> v]
NaN == [k |-> "nan", v |-> 0]
Inf(sign) == [k |-> "inf", v |-> sign]
Sign(v) == IF v > 0 THEN 1 ELSE IF v < 0 THEN -1 ELSE 0

FNeg(a) == IF a.k = "nan" THEN NaN ELSE [k |-> a.k, v |-> -a.v]

FAdd(a, b) ==
    IF a.k = "nan" \/ b.k = "nan" THEN NaN
    ELSE IF a.k = "inf" /\ b.k = "inf" THEN (IF a.v = b.v THEN a ELSE NaN)
    ELSE IF a.k = "inf" THEN a
    ELSE IF b.k = "inf" THEN b
    ELSE F(a.v + b.v)

FSub(a, b) == FAdd(a, FNeg(b))

FMul(a, b) ==
    IF a.k = "nan" \/ b.k = "nan" THEN NaN
    ELSE IF a.k = "inf" \/ b.k = "inf"
         THEN (IF Sign(a.v) * Sign(b.v) = 0 THEN NaN ELSE Inf(Sign(a.v) * Sign(b.v)))
    ELSE F(a.v * b.v)

\* a / b for finite integers a, b: exact when b divides a; by zero it is an
\* infinity, or NaN for 0 / 0.
FDiv(a, b) ==
    IF b = 0 THEN (IF a = 0 THEN NaN ELSE Inf(Sign(a)))
    ELSE F(a \div b)

RECURSIVE IntPow(_, _)
IntPow(b, e) == IF e = 0 THEN 1 ELSE b * IntPow(b, e - 1)

\* a ** (e2 / 2): the exponent is given in halves.
FPow(a, e2) ==
    LET odd == e2 % 2 = 1
        n == IF e2 < 0 THEN -e2 ELSE e2
        \* the exponent is an odd integer
        oddint == (~odd) /\ (n \div 2) % 2 = 1
    IN IF e2 = 0 THEN F(1)
       ELSE IF a.k = "nan" THEN NaN
       ELSE IF a.k = "inf"
            THEN (IF e2 > 0 THEN Inf(IF a.v < 0 /\ oddint THEN -1 ELSE 1) ELSE F(0))
       ELSE IF a.v = 0 THEN (IF e2 < 0 THEN Inf(1) ELSE F(0))
       ELSE IF a.v < 0 /\ odd THEN NaN
       ELSE LET root == IF odd THEN ISqrt(a.v) ELSE a.v
                m == IF odd THEN n ELSE n \div 2
                pw == IntPow(root, m)
            IN IF e2 > 0 THEN F(pw) ELSE F(1 \div pw)

\* torch.cos(a * math.pi): on an integer it is 1 or -1.
FCosPi(a) ==
    IF a.k # "fin" THEN NaN
    ELSE IF a.v % 2 = 0 THEN F(1) ELSE F(-1)

\* a * 1 / 2 for an even finite a
FHalf(a) == IF a.k = "fin" THEN F(a.v \div 2) ELSE a

(***************************************************************************)
(* MDT.forward_with_cfg                                                    *)
(***************************************************************************)
CfgSteps == {0, 1}                      \* diffusion_steps
CfgTimes == {0, 1, 2}                   \* timesteps t
CfgPowers == {-2, 0, 1, 2, 4}           \* scale_pow, in halves
CfgScales == {None, Some(1), Some(2), Some(4)}

\* model_out[:, :3], model_out[:, 3:]
eps_channels_mut(in_channels) == in_channels
eps_channels(in_channels) == 3

\* scale_step = (1 - torch.cos(((1 - t / diffusion_steps) ** scale_pow) * math.pi)) * 1 / 2
scale_step(t, diffusion_steps, scale_pow) ==
    FHalf(FSub(F(1), FCosPi(FPow(FSub(F(1), FDiv(t, diffusion_steps)), scale_pow))))

\* real_cfg_scale = (cfg_scale - 1) * scale_step + 1
real_cfg_scale_mut(cfg_scale, step) == FAdd(FMul(F(cfg_scale), step), F(1))
real_cfg_scale_of(cfg_scale, step) == FAdd(FMul(F(cfg_scale - 1), step), F(1))

\* MDT.forward_with_cfg(x, t, y, cfg_scale, diffusion_steps, scale_pow): N is
\* len(x), model_out ([.][channel]) what self.forward returns.  Each value
\* stands for the channel's whole H x W plane, which every step treats alike.
forward_with_cfg(in_channels, N, t, cfg_scale, diffusion_steps, scale_pow, model_out) ==
    LET C == Cardinality(DOMAIN model_out[0])
        eps == SliceTo(C, eps_channels(in_channels))
        rest == Range(C) \ eps
        half == N \div 2
    IN IF cfg_scale # None
       THEN LET \* cond_eps, uncond_eps = torch.split(eps, len(eps) // 2, dim=0)
                real == [n \in Range(half) |->
                            real_cfg_scale_of(Val(cfg_scale),
                                              scale_step(t[n], diffusion_steps, scale_pow))]
                half_eps == [n \in Range(half) |-> [ch \in eps |->
                                FAdd(model_out[half + n][ch],
                                     FMul(real[n], FSub(model_out[n][ch],
                                                        model_out[half + n][ch])))]]
            IN [real_cfg_scale |-> Some(real),
                eps |-> eps,
                out |-> [n \in Range(2 * half) |-> [ch \in Range(C) |->
                            IF ch \in eps THEN half_eps[n % half][ch]
                            ELSE model_out[n][ch]]]]
       ELSE [real_cfg_scale |-> None,
             eps |-> eps,
             out |-> [n \in DOMAIN model_out |-> [ch \in Range(C) |->
                         model_out[n][ch]]]]

\* self.out_channels
out_channels(in_channels, learn_sigma) ==
    IF learn_sigma THEN in_channels * 2 ELSE in_channels

\* Timesteps of a batch: one value for all samples, or a different one each.
TimestepInputs(N) ==
    {[n \in Range(N) |-> t0] : t0 \in CfgTimes}
    \cup {[n \in Range(N) |-> (n + s) % 3] : s \in CfgTimes}

\* Outputs of self.forward on a batch of N with C channels: every entry
\* distinct, with the two halves of the batch far apart or equal.
ModelOutputs(N, C) ==
    {[n \in Range(N) |-> [ch \in Range(C) |-> F(10 * (n \div (N \div 2)) * d + n + ch * N)]] :
        d \in {0, 1}}

InitCfg ==
    /\ cf_in \in UNION {{[in_channels |-> ic, learn_sigma |-> ls, N |-> 2 * half, t |-> t,
                           cfg_scale |-> cs, diffusion_steps |-> ds, scale_pow |-> sp,
                           model_out |-> mo] :
                            t \in TimestepInputs(2 * half), cs \in CfgScales,
                            ds \in CfgSteps, sp \in CfgPowers,
                            mo \in ModelOutputs(2 * half, out_channels(ic, ls))} :
                        ic \in 1 .. (MaxChannels + 2), ls \in BOOLEAN,
                        half \in 1 .. MaxBatch}
    /\ cf_out = Idle
    /\ rmIdle /\ rbIdle /\ upIdle /\ leIdle /\ fwIdle /\ siIdle

ForwardWithCfg ==
    /\ cf_out = Idle
    /\ cf_out' = forward_with_cfg(cf_in.in_channels, cf_in.N, cf_in.t, cf_in.cfg_scale,
                                  cf_in.diffusion_steps, cf_in.scale_pow, cf_in.model_out)
    /\ UNCHANGED <<cf_in, notCf>>

NextCfg == ForwardWithCfg

SpecCfg == InitCfg /\ [][NextCfg]_vars

cf_half == cf_in.N \div 2

\* C8 as stated: with cfg_scale = 1, real_cfg_scale is 1 for every timestep,
\* every diffusion_steps and every scale_pow.
C8_UnitScaleAnyArguments ==
    (cf_out # Idle /\ cf_in.cfg_scale = Some(1)) =>
        \A n \in Range(cf_half) : Val(cf_out.real_cfg_scale)[n] = F(1)

\* The schedule's arguments are in range: diffusion_steps > 0, every timestep
\* in 0..diffusion_steps and scale_pow >= 0.
cf_schedule_in_range ==
    /\ cf_in.diffusion_steps > 0 /\ cf_in.scale_pow >= 0
    /\ \A n \in Range(cf_in.N) : cf_in.t[n] >= 0 /\ cf_in.t[n] <= cf_in.diffusion_steps

\* C8, amended: with cfg_scale = 1, diffusion_steps > 0, every timestep in
\* 0..diffusion_steps and scale_pow >= 0, real_cfg_scale is 1 and the guided
\* channels are those of the conditional half (no extrapolation).
C8_UnitScale ==
    (cf_out # Idle /\ cf_in.cfg_scale = Some(1) /\ cf_schedule_in_range)
    => \A n \in Range(cf_half) :
        /\ Val(cf_out.real_cfg_scale)[n] = F(1)
        /\ \A ch \in cf_out.eps :
              /\ cf_out.out[n][ch] = cf_in.model_out[n][ch]
              /\ cf_out.out[cf_half + n][ch] = cf_in.model_out[n][ch]

\* cfg_scale = 1 at t = 0 of 1 step, where scale_step is 1 (the schedule is at
\* full strength), on halves that differ.
C8_Witness ==
    /\ cf_out # Idle /\ cf_in.cfg_scale = Some(1)
    /\ cf_in.diffusion_steps = 1 /\ cf_in.scale_pow = 2
    /\ \A n \in Range(cf_in.N) : cf_in.t[n] = 0
    /\ scale_step(cf_in.t[0], cf_in.diffusion_steps, cf_in.scale_pow) = F(1)
    /\ cf_in.model_out[0][0] # cf_in.model_out[cf_half][0]
    /\ Val(cf_out.real_cfg_scale)[0] = F(1)

\* C9: the first in_channels channels of the result are the guided quantity
\* (with cfg_scale given: uncond + real_cfg_scale * (cond - uncond), the same
\* in both halves) and every other channel is that of self.forward's output,
\* with cfg_scale given or not.  Stated for calls whose schedule arguments are
\* in range, where every value is finite.
C9_SplitAtInChannels ==
    (cf_out # Idle /\ cf_schedule_in_range) =>
        /\ \A n \in DOMAIN cf_out.out : \A ch \in DOMAIN cf_out.out[n] :
              ch >= cf_in.in_channels => cf_out.out[n][ch] = cf_in.model_out[n][ch]
        /\ cf_in.cfg_scale # None =>
              \A n \in Range(cf_half) : \A ch \in Range(cf_in.in_channels) :
                LET cond == cf_in.model_out[n][ch]
                    uncond == cf_in.model_out[cf_half + n][ch]
                    guided == FAdd(uncond, FMul(Val(cf_out.real_cfg_scale)[n],
                                                FSub(cond, uncond)))
                IN cf_out.out[n][ch] = guided /\ cf_out.out[cf_half + n][ch] = guided

(***************************************************************************)
(* MDT: construction, initialisation and the forward pass.                 *)
(*                                                                         *)
(* The hidden dimension is abstracted to one number per token: a token,    *)
(* the conditioning c of a sample, a positional embedding and the mask     *)
(* token are integers, and a Linear layer is the pair (weight, bias)       *)
(* applied as weight * v + bias.  What the abstraction cannot compute      *)
(* (the output of attention and of the MLP, the value of a LayerNorm) is a *)
(* choice from a small family.  Shapes, indices and control flow are       *)
(* exact.                                                                  *)
(***************************************************************************)
MaxDepth == 2

\* nn.Linear, on the one-number abstraction.
Linear(lin, v) == lin.weight * v + lin.bias

\* modulate(x, shift, scale) for one token of one sample.
modulate(xv, shift, scale) == xv * (1 + scale) + shift

\* Attention.__init__ evaluates head_dim ** -0.5 with head_dim = dim // num_heads.
Attention_init_raises(dim, num_heads) ==
    num_heads = 0 \/ TruncDiv(dim, num_heads) = 0

\* get_2d_sincos_pos_embed asserts embed_dim % 2 == 0 and, for each half,
\* (embed_dim // 2) % 2 == 0.
sincos_asserts(embed_dim) == embed_dim % 2 = 0 /\ (embed_dim \div 2) % 2 = 0

\* The sin-cos table copied into pos_embed and decoder_pos_embed: one
\* distinct number per position.
get_2d_sincos_pos_embed(num_patches) == [k \in Range(num_patches) |-> 100 * (k + 1)]

\* MDT.initialize_weights on the fields built by __init__.  _basic_init gives
\* every Linear a xavier weight (non-zero) and a zero bias; the adaLN
\* modulation of every block and side block and both layers of the final
\* layer are then set to zero, and the mask token is drawn from a normal
\* distribution when there is a mask_ratio.
initialize_weights_mut(self) ==
    LET zero == [weight |-> 0, bias |-> 0]
        xavier == [weight |-> 1, bias |-> 0]
    IN [self EXCEPT
          !.decoder_pos_embed = get_2d_sincos_pos_embed(self.num_patches),
          !.blocks = [b \in DOMAIN self.blocks |-> [adaLN_modulation |-> zero]],
          !.sideblocks = [b \in DOMAIN self.sideblocks |-> [adaLN_modulation |-> zero]],
          !.final_layer = [adaLN_modulation |-> zero, linear |-> xavier],
          !.mask_token = IF self.mask_ratio # None THEN -1 ELSE 0]
initialize_weights(self) ==
    LET zero == [weight |-> 0, bias |-> 0]
    IN [self EXCEPT
          !.decoder_pos_embed = get_2d_sincos_pos_embed(self.num_patches),
          !.blocks = [b \in DOMAIN self.blocks |-> [adaLN_modulation |-> zero]],
          !.sideblocks = [b \in DOMAIN self.sideblocks |-> [adaLN_modulation |-> zero]],
          !.final_layer = [adaLN_modulation |-> zero, linear |-> zero],
          !.mask_token = IF self.mask_ratio # None THEN -1 ELSE 0]

\* MDT.__init__(**a): the instance, or the error the constructor raises.
\* Nothing is compared against anything: the only errors are the ones the
\* statements themselves raise.
MDT_init(a) ==
    LET grid == TruncDiv(a.input_size, a.patch_size)
        num_patches == grid * grid
        default == [weight |-> 1, bias |-> 1]       \* nn.Linear's own init
        self == [in_channels |-> a.in_channels,
                 out_channels |-> out_channels(a.in_channels, a.learn_sigma),
                 patch_size |-> a.patch_size,
                 num_heads |-> a.num_heads,
                 hidden_size |-> a.hidden_size,
                 num_patches |-> num_patches,
                 blocks |-> [b \in Range(a.depth) |-> [adaLN_modulation |-> default]],
                 sideblocks |-> [b \in Range(1) |-> [adaLN_modulation |-> default]],
                 final_layer |-> [adaLN_modulation |-> default, linear |-> default],
                 decoder_pos_embed |-> [k \in Range(num_patches) |-> 0],
                 mask_token |-> 0,
                 mask_ratio |-> a.mask_ratio,                   \* float(mask_ratio)
                 decode_layer |-> IF a.decode_layer = None THEN 0
                                  ELSE Val(a.decode_layer)]     \* int(decode_layer)
    IN IF Attention_init_raises(a.hidden_size, a.num_heads)
         THEN [raised |-> "ZeroDivisionError"]
       ELSE IF a.decode_layer = None THEN [raised |-> "TypeError"]
       ELSE IF ~sincos_asserts(a.hidden_size) THEN [raised |-> "AssertionError"]
       ELSE [self |-> initialize_weights(self)]

\* Constructor arguments: sizes that divide and sizes that do not, ratios in
\* and out of [0, 1), decode_layer in and out of [0, depth) and absent.
FwdGrids == {1, 2}                                  \* input_size // patch_size
FwdHiddenSizes == {4, 6}
FwdNumHeads == {2, 3, 5}
FwdShapes == {<<1, FALSE>>, <<2, TRUE>>}            \* patch_size, learn_sigma
FwdRatios == {None} \cup {Some(num) : num \in {-1, 0, 2, 3, 4}}
FwdDecodeLayers == {None} \cup {Some(d) : d \in (-1) .. (MaxDepth + 1)}

Configs ==
    {[input_size |-> g * sh[1], patch_size |-> sh[1], in_channels |-> 1,
      hidden_size |-> hs, depth |-> d, num_heads |-> nh, learn_sigma |-> sh[2],
      mask_ratio |-> mr, decode_layer |-> dl] :
        g \in FwdGrids, sh \in FwdShapes, hs \in FwdHiddenSizes,
        d \in 1 .. MaxDepth, nh \in FwdNumHeads, mr \in FwdRatios,
        dl \in FwdDecodeLayers}

Init ==
    /\ cfg \in Configs
    /\ net = Idle
    /\ trained = FALSE
    /\ pc = "new"
    /\ fwLocalsIdle
    /\ rmIdle /\ rbIdle /\ upIdle /\ leIdle /\ cfIdle /\ siIdle

\* model = MDT(**cfg)
Construct ==
    /\ pc = "new"
    /\ LET r == MDT_init(cfg)
       IN IF "raised" \in DOMAIN r
            THEN /\ pc' = "ctor_raised"
                 /\ net' = Idle
                 /\ fw_out' = r
            ELSE /\ pc' = "ready"
                 /\ net' = r.self
                 /\ fw_out' = fw_out
    /\ UNCHANGED <<cfg, trained, fw_call, fw_x, fw_masked_stage, fw_mask,
                   fw_ids_restore, fw_ids_keep, fw_i, fw_log, notFw>>

\* The values an optimizer leaves in a Linear layer.
TrainedLinears == {[weight |-> 1, bias |-> 0], [weight |-> 1, bias |-> 1]}

\* Optimizer steps between two calls: the parameters that initialisation
\* zeroed move away from zero.
Train ==
    /\ pc = "ready"
    /\ \E lin \in TrainedLinears :
         net' = [net EXCEPT
                   !.blocks = [b \in DOMAIN net.blocks |-> [adaLN_modulation |-> lin]],
                   !.sideblocks = [b \in DOMAIN net.sideblocks |-> [adaLN_modulation |-> lin]],
                   !.final_layer = [adaLN_modulation |-> lin, linear |-> lin]]
    /\ trained' = TRUE
    /\ UNCHANGED <<cfg, pc, fwLocals, notFw>>

\* What attention plus MLP contribute to token k, and what a LayerNorm
\* without affine makes of it: one of two shapes each.
BranchKinds == {0, 1}
BlockOutput(kind, k) == IF kind = 0 THEN 1 ELSE k + 2
LayerNormOutput(kind, k) == IF kind = 0 THEN 1 ELSE (-1) - k

\* The errors of Attention.forward on x of shape [B][len].  The module's
\* bias is built for the window [int(num_patches ** 0.5)] * 2, W positions.
\* The reshape of qkv into num_heads heads of C // num_heads fails when the
\* heads do not divide C; get_masked_rel_bias gathers rows and columns
\* ids_keep of the W x W bias and fails on an index outside it; and the
\* in-place attn += rp_bias fails for a bias that does not broadcast to
\* len x len.
Attention_forward_raises(self, xx, keep) ==
    LET B == Cardinality(DOMAIN xx)
        len == Cardinality(DOMAIN xx[0])
        side == ISqrt(self.num_patches)
        W == side * side
    IN \/ B * len > 0 /\ self.hidden_size % self.num_heads # 0
       \/ keep = None /\ len # W /\ W # 1
       \/ /\ keep # None
          /\ \/ \E n \in DOMAIN Val(keep) : \E k \in DOMAIN Val(keep)[n] :
                  Val(keep)[n][k] < 0 \/ Val(keep)[n][k] >= W
             \/ LET K == Cardinality(DOMAIN Val(keep)[0])
                IN K # len /\ K # 1

\* x + self.decoder_pos_embed for one sample, with torch's broadcasting of a
\* length-1 axis; the sum fails for two different lengths above 1.
pos_embed_raises(len, P) == len # P /\ len # 1 /\ P # 1
add_pos_embed(row, pe) ==
    LET len == Cardinality(DOMAIN row)
        P == Cardinality(DOMAIN pe)
    IN [k \in Range(IF len = 1 THEN P ELSE len) |->
          row[IF len = 1 THEN 0 ELSE k] + pe[IF P = 1 THEN 0 ELSE k]]

\* MDTBlock.forward(x, c, ids_keep): x + gate * (attention and MLP), with
\* the gate from adaLN_modulation(c).
MDTBlock_forward(self, block, xx, c, keep, kind) ==
    IF Attention_forward_raises(self, xx, keep) THEN [raised |-> "RuntimeError"]
    ELSE [x |-> [n \in DOMAIN xx |->
                   [k \in DOMAIN xx[n] |->
                      xx[n][k] + Linear(block.adaLN_modulation, c[n])
                                   * BlockOutput(kind, k)]]]

\* torch.gather(x_, dim=1, index=ids_restore...) for one sample: the unshuffle.
unshuffle_mut(x_row, restore_row) == x_row
unshuffle(x_row, restore_row) == gather(x_row, restore_row)

\* x * mask + (1 - mask) * x_before for one token: the masked shortcut.
masked_shortcut_mut(xv, m, x_before_v) == xv * (1 - m) + m * x_before_v
masked_shortcut(xv, m, x_before_v) == xv * m + (1 - m) * x_before_v

\* MDT.forward_side_interpolater(x, c, mask, ids_restore): the result x, with
\* the intermediate tensors of the call beside it, or the error raised.
forward_side_interpolater(self, xx, c, msk, restore, kind) ==
    LET L == Cardinality(DOMAIN restore[0])
        len == Cardinality(DOMAIN xx[0])
        \* x_ = cat([x, mask_tokens]), then unshuffled by ids_restore
        x_ == [n \in DOMAIN xx |->
                 [k \in Range(L) |-> IF k < len THEN xx[n][k] ELSE self.mask_token]]
        unshuffled == [n \in DOMAIN xx |-> unshuffle(x_[n], restore[n])]
        x_before == [n \in DOMAIN xx |->
                       add_pos_embed(unshuffled[n], self.decoder_pos_embed)]
        side == MDTBlock_forward(self, self.sideblocks[0], x_before, c, None, kind)
    IN IF pos_embed_raises(L, self.num_patches) THEN [raised |-> "RuntimeError"]
       ELSE IF "raised" \in DOMAIN side THEN side
       ELSE [x |-> [n \in DOMAIN xx |->
                      [k \in DOMAIN x_before[n] |->
                         LET m == msk[n][IF L = 1 THEN 0 ELSE k]
                         IN masked_shortcut(side.x[n][k], m, x_before[n][k])]],
             unshuffled |-> unshuffled,
             x_before |-> x_before,
             sideblock_x |-> side.x]

\* FinalLayer.forward(x, c): linear(modulate(norm_final(x), shift, scale)),
\* patch_size ** 2 * out_channels numbers per token.
FinalLayer_forward(self, xx, c, kind) ==
    LET fl == self.final_layer
        E == self.patch_size * self.patch_size * self.out_channels
    IN [n \in DOMAIN xx |->
          [k \in DOMAIN xx[n] |->
             [e \in Range(E) |->
                Linear(fl.linear,
                       modulate(LayerNormOutput(kind, k),
                                Linear(fl.adaLN_modulation, c[n]),
                                Linear(fl.adaLN_modulation, c[n])))]]]

\* x_embedder(x) + pos_embed and SiLU(t_embedder(t) + y_embedder(y)) for a
\* batch of N images of L patches: every token distinct; c zero or not.
CallInputs(N, L) ==
    {[x |-> [n \in Range(N) |-> [k \in Range(L) |-> n * L + k + 1]],
      c |-> [n \in Range(N) |-> cscale * (n + 1)],
      enable_mask |-> em] : cscale \in {0, 1}, em \in BOOLEAN}

\* The batch sizes of the calls.
FwdBatches == {1}

len_blocks == Cardinality(DOMAIN net.blocks)

\* forward, up to the loop: embedding and the optional random_masking.
ForwardBegin ==
    /\ pc = "ready"
    /\ \E N \in FwdBatches : \E inp \in CallInputs(N, net.num_patches) :
         /\ fw_call' = inp
         /\ IF net.mask_ratio # None /\ inp.enable_mask
              THEN \* every order the argsort of torch.rand(N, L) can give
                   \E ids_shuffle \in [DOMAIN inp.x -> ids_shuffle_of(net.num_patches)] :
                     LET r == random_masking(inp.x, Val(net.mask_ratio), ids_shuffle)
                     IN /\ fw_x' = [n \in DOMAIN inp.x |-> r.sample[n].x_masked]
                        /\ fw_mask' = [n \in DOMAIN inp.x |-> r.sample[n].mask]
                        /\ fw_ids_restore' = [n \in DOMAIN inp.x |-> r.sample[n].ids_restore]
                        /\ fw_ids_keep' = [n \in DOMAIN inp.x |-> r.sample[n].ids_keep]
                        /\ fw_masked_stage' = TRUE
              ELSE /\ fw_x' = inp.x
                   /\ fw_masked_stage' = FALSE
                   /\ UNCHANGED <<fw_mask, fw_ids_restore, fw_ids_keep>>
    /\ fw_i' = 0
    /\ pc' = IF len_blocks > 0 THEN "loop" ELSE "final"
    /\ UNCHANGED <<cfg, net, trained, fw_log, fw_out, notFw>>

\* One entry of fw_log: what ran at loop index i, on a sequence of which
\* length, and with which ids_keep.
Event(op, idx, xx, keep) ==
    [op |-> op, i |-> idx, len |-> Cardinality(DOMAIN xx[0]), ids_keep |-> keep]

\* The splice of one loop iteration: at i == len(self.blocks) - decode_layer
\* the side interpolater runs when masking is on, and the decoder positional
\* embedding is added otherwise.  The result is x, the flag and the events,
\* or the error raised.
splice(self, inp, xx, stage, msk, restore, idx, kind) ==
    IF idx # Cardinality(DOMAIN self.blocks) - self.decode_layer
      THEN [x |-> xx, masked_stage |-> stage, events |-> <<>>]
    ELSE IF self.mask_ratio # None /\ inp.enable_mask
      THEN LET r == forward_side_interpolater(self, xx, inp.c, msk, restore, kind)
           IN IF "raised" \in DOMAIN r THEN r
              ELSE [x |-> r.x, masked_stage |-> FALSE,
                    events |-> <<Event("side_interpolater", idx, xx, None)>>]
    ELSE IF pos_embed_raises(Cardinality(DOMAIN xx[0]), self.num_patches)
      THEN [raised |-> "RuntimeError"]
    ELSE [x |-> [n \in DOMAIN xx |-> add_pos_embed(xx[n], self.decoder_pos_embed)],
          masked_stage |-> stage,
          events |-> <<Event("decoder_pos_embed", idx, xx, None)>>]

\* One iteration of the loop over self.blocks: the splice, then block i with
\* ids_keep while masked_stage holds and with None afterwards.
LoopIteration ==
    /\ pc = "loop"
    /\ fw_i < len_blocks
    /\ \E side_kind \in BranchKinds, kind \in BranchKinds :
         LET s == splice(net, fw_call, fw_x, fw_masked_stage, fw_mask,
                         fw_ids_restore, fw_i, side_kind)
         IN IF "raised" \in DOMAIN s
              THEN /\ fw_out' = s
                   /\ pc' = "raised"
                   /\ UNCHANGED <<fw_x, fw_masked_stage, fw_i, fw_log>>
              ELSE LET keep == IF s.masked_stage THEN Some(fw_ids_keep) ELSE None
                       b == MDTBlock_forward(net, net.blocks[fw_i], s.x, fw_call.c,
                                             keep, kind)
                   IN IF "raised" \in DOMAIN b
                        THEN /\ fw_out' = b
                             /\ pc' = "raised"
                             /\ fw_masked_stage' = s.masked_stage
                             /\ fw_log' = fw_log \o s.events
                             /\ UNCHANGED <<fw_x, fw_i>>
                        ELSE /\ fw_x' = b.x
                             /\ fw_masked_stage' = s.masked_stage
                             /\ fw_log' = fw_log \o s.events
                                            \o <<Event("block", fw_i, s.x, keep)>>
                             /\ fw_i' = fw_i + 1
                             /\ pc' = IF fw_i + 1 < len_blocks THEN "loop" ELSE "final"
                             /\ fw_out' = fw_out
    /\ UNCHANGED <<cfg, net, trained, fw_call, fw_mask, fw_ids_restore,
                   fw_ids_keep, notFw>>

\* forward, after the loop: the final layer, then unpatchify.
ForwardEnd ==
    /\ pc = "final"
    /\ \E kind \in BranchKinds :
         LET r == unpatchify(FinalLayer_forward(net, fw_x, fw_call.c, kind),
                             net.out_channels, net.patch_size)
         IN /\ fw_out' = r
            /\ pc' = IF "raised" \in DOMAIN r THEN "raised" ELSE "done"
    /\ UNCHANGED <<cfg, net, trained, fw_call, fw_x, fw_masked_stage, fw_mask,
                   fw_ids_restore, fw_ids_keep, fw_i, fw_log, notFw>>

\* The call is over: its locals go, the instance stays.
Return ==
    /\ pc \in {"done", "raised"}
    /\ pc' = "ready"
    /\ fw_call' = Idle /\ fw_x' = Idle /\ fw_masked_stage' = FALSE
    /\ fw_mask' = Idle /\ fw_ids_restore' = Idle /\ fw_ids_keep' = Idle
    /\ fw_i' = 0 /\ fw_log' = <<>> /\ fw_out' = Idle
    /\ UNCHANGED <<cfg, net, trained, notFw>>

Next ==
    \/ Construct
    \/ Train
    \/ ForwardBegin
    \/ LoopIteration
    \/ ForwardEnd
    \/ Return

Spec == Init /\ [][Next]_vars

\* The call in progress has ended, by a return or by an error.
fw_ended == pc \in {"done", "raised"}

\* forward returned a tensor of shape [N][out_channels][H][W], H = W = the
\* constructor's input_size.
fw_full_shape ==
    /\ pc = "done"
    /\ DOMAIN fw_out = {"imgs"}
    /\ DOMAIN fw_out.imgs = DOMAIN fw_call.x
    /\ \A n \in DOMAIN fw_out.imgs :
         /\ DOMAIN fw_out.imgs[n] = Range(net.out_channels)
         /\ \A ch \in DOMAIN fw_out.imgs[n] :
              /\ DOMAIN fw_out.imgs[n][ch] = Range(cfg.input_size)
              /\ \A r \in DOMAIN fw_out.imgs[n][ch] :
                   DOMAIN fw_out.imgs[n][ch][r] = Range(cfg.input_size)

fw_all_zero ==
    \A n \in DOMAIN fw_out.imgs : \A ch \in DOMAIN fw_out.imgs[n] :
        \A r \in DOMAIN fw_out.imgs[n][ch] : \A col \in DOMAIN fw_out.imgs[n][ch][r] :
            fw_out.imgs[n][ch][r][col] = 0

\* C4: on an instance no optimizer step has touched, every tensor forward
\* returns is zero in every element, whatever the conditioning and whatever
\* the blocks computed; and forward(x, t, y) without masking does return one,
\* of the full shape, when the heads divide the hidden size.
C4_FreshOutputZero ==
    /\ (pc = "done" /\ ~trained) => fw_all_zero
    /\ (fw_ended /\ ~trained /\ ~fw_call.enable_mask
          /\ net.hidden_size % net.num_heads = 0)
       => (fw_full_shape /\ fw_all_zero)

\* A fresh instance with a 2 x 2 grid of 2 x 2 patches has run both of its
\* blocks on non-zero conditioning and returned from forward(x, t, y).
C4_Witness ==
    /\ pc = "done" /\ ~trained /\ ~fw_call.enable_mask
    /\ fw_call.c[0] # 0
    /\ net.num_patches = 4 /\ net.patch_size = 2 /\ net.out_channels = 2
    /\ Len(fw_log) >= 2 /\ fw_log[Len(fw_log)].op = "block"
    /\ fw_full_shape

\* The configuration is one the constructor's contract admits: the heads
\* divide the hidden size, mask_ratio is in [0, 1), 0 <= decode_layer < depth.
cfg_in_range ==
    /\ cfg.hidden_size % cfg.num_heads = 0
    /\ cfg.mask_ratio # None => (Val(cfg.mask_ratio) >= 0 /\ Val(cfg.mask_ratio) < MaskDen)
    /\ cfg.decode_layer # None
    /\ Val(cfg.decode_layer) >= 0 /\ Val(cfg.decode_layer) < cfg.depth

\* C5: on a model built with a mask_ratio and a decode_layer, every call
\* forward(x, t, y, enable_mask=True) returns a tensor of the full shape
\* [N, out_channels, H, W].
C5_MaskedShape ==
    (fw_ended /\ cfg_in_range /\ net.mask_ratio # None /\ fw_call.enable_mask)
    => fw_full_shape

\* C10: a configuration outside the contract (heads that do not divide the
\* hidden size, mask_ratio negative or >= 1, decode_layer < 0 or >= depth)
\* makes the constructor raise and leaves no instance.
C10_InvalidConfigRejected ==
    (pc # "new" /\ ~cfg_in_range) => (pc = "ctor_raised" /\ net = Idle)

\* The loop over self.blocks of the call in progress has run to its end.
fw_loop_done == fw_call # Idle /\ fw_i = len_blocks

\* Masking is active in the call in progress.
fw_masking == net.mask_ratio # None /\ fw_call.enable_mask

\* The positions of fw_log that hold a splice, and those that hold a block call.
fw_splices == {k \in 1 .. Len(fw_log) : fw_log[k].op # "block"}
fw_block_calls == {k \in 1 .. Len(fw_log) : fw_log[k].op = "block"}

\* Every block ran exactly once, in index order.
fw_blocks_in_order ==
    /\ Cardinality(fw_block_calls) = len_blocks
    /\ \A k \in fw_block_calls :
         fw_log[k].i = Cardinality({j \in fw_block_calls : j < k})

\* C11: in a forward call of a configuration with 0 <= decode_layer < depth
\* the splice runs exactly once, at loop index depth - decode_layer and just
\* before that block: the side interpolater when masking is active, the
\* decoder positional embedding alone otherwise; and every block runs exactly
\* once, in index order.
C11_SpliceExactlyOnce ==
    (fw_loop_done /\ cfg_in_range) =>
        /\ Cardinality(fw_splices) = 1
        /\ \A k \in fw_splices :
             /\ fw_log[k].i = len_blocks - net.decode_layer
             /\ fw_log[k].op = IF fw_masking THEN "side_interpolater"
                               ELSE "decoder_pos_embed"
             /\ k < Len(fw_log)
             /\ fw_log[k + 1].op = "block" /\ fw_log[k + 1].i = fw_log[k].i
        /\ fw_blocks_in_order

\* C12: with masking active, every block of index < depth - decode_layer is
\* called on the reduced sequence with the ids_keep of random_masking, every
\* block of index >= depth - decode_layer on the full-length sequence with
\* ids_keep = None, and masked_stage stays cleared after the splice; with
\* masking inactive every block is called with ids_keep = None.  Stated for
\* heads that divide the hidden size and a mask_ratio in [0, 1).
C12_BlockArguments ==
    (/\ fw_call # Idle
     /\ cfg.hidden_size % cfg.num_heads = 0
     /\ cfg.mask_ratio # None =>
          (Val(cfg.mask_ratio) >= 0 /\ Val(cfg.mask_ratio) < MaskDen)) =>
        /\ \A k \in fw_block_calls :
             IF ~fw_masking THEN fw_log[k].ids_keep = None
             ELSE IF fw_log[k].i < len_blocks - net.decode_layer
               THEN /\ fw_log[k].ids_keep = Some(fw_ids_keep)
                    /\ fw_log[k].len = Cardinality(DOMAIN fw_ids_keep[0])
               ELSE /\ fw_log[k].ids_keep = None
                    /\ fw_log[k].len = net.num_patches
        /\ (\E k \in fw_splices : fw_log[k].op = "side_interpolater")
             => ~fw_masked_stage

(***************************************************************************)
(* MDT.forward_side_interpolater on what MDT.random_masking returned, for   *)
(* every order the argsort of the noise can give.                          *)
(***************************************************************************)
\* The instances MDT.__init__ builds for a grid x grid input of one-pixel
\* patches, with depth blocks and decode_layer = 1, so that depth - 1 blocks
\* run before the splice: as initialize_weights leaves them, or with the
\* adaLN modulation of the blocks and of the side block as an optimizer left
\* it.
SideModules(grid, depth, mask_ratio) ==
    LET fresh == MDT_init([input_size |-> grid, patch_size |-> 1, in_channels |-> 1,
                           hidden_size |-> 4, depth |-> depth, num_heads |-> 2,
                           learn_sigma |-> FALSE, mask_ratio |-> mask_ratio,
                           decode_layer |-> Some(1)]).self
    IN {fresh} \cup
       {[fresh EXCEPT
           !.blocks = [b \in DOMAIN fresh.blocks |-> [adaLN_modulation |-> lin]],
           !.sideblocks = [b \in DOMAIN fresh.sideblocks |-> [adaLN_modulation |-> lin]]] :
          lin \in TrainedLinears}

\* The batch sizes of the calls.
SideBatches == {1, 2}

InitSide ==
    /\ \E N \in SideBatches, grid \in FwdGrids, depth \in 1 .. MaxDepth,
          num \in RatioNums :
         /\ si_self \in SideModules(grid, depth, Some(num))
         /\ si_in = [x |-> [n \in Range(N) |->
                              [k \in Range(grid * grid) |-> n * grid * grid + k + 1]],
                     c |-> [n \in Range(N) |-> n + 1],
                     mask_ratio |-> num]
    /\ si_rm = Idle
    /\ si_out = Idle
    /\ rmIdle /\ rbIdle /\ upIdle /\ leIdle /\ cfIdle /\ fwIdle

\* x, mask, ids_restore, ids_keep = self.random_masking(x, self.mask_ratio),
\* for every order the argsort of torch.rand(N, L) can give.
SideMasking ==
    /\ si_rm = Idle
    /\ \E ids_shuffle \in [DOMAIN si_in.x -> ids_shuffle_of(si_self.num_patches)] :
         LET r == random_masking(si_in.x, si_in.mask_ratio, ids_shuffle)
         IN si_rm' = [x |-> [n \in DOMAIN si_in.x |-> r.sample[n].x_masked],
                      mask |-> [n \in DOMAIN si_in.x |-> r.sample[n].mask],
                      ids_restore |-> [n \in DOMAIN si_in.x |-> r.sample[n].ids_restore],
                      ids_keep |-> [n \in DOMAIN si_in.x |-> r.sample[n].ids_keep],
                      blocks_run |-> 0]
    /\ UNCHANGED <<si_self, si_in, si_out, notSi>>

\* The loop index of the splice: len(self.blocks) - self.decode_layer.
si_splice_index == Cardinality(DOMAIN si_self.blocks) - si_self.decode_layer

\* One loop iteration before the splice, while masked_stage holds:
\* x = block(x, c, ids_keep=ids_keep) with block = self.blocks[i].
SideBlock ==
    /\ si_rm # Idle /\ si_out = Idle
    /\ si_rm.blocks_run < si_splice_index
    /\ \E kind \in BranchKinds :
         LET b == MDTBlock_forward(si_self, si_self.blocks[si_rm.blocks_run], si_rm.x,
                                   si_in.c, Some(si_rm.ids_keep), kind)
         IN IF "raised" \in DOMAIN b
              THEN si_out' = b /\ si_rm' = si_rm
              ELSE /\ si_rm' = [si_rm EXCEPT !.x = b.x, !.blocks_run = @ + 1]
                   /\ si_out' = si_out
    /\ UNCHANGED <<si_self, si_in, notSi>>

\* The loop iteration i == len(self.blocks) - self.decode_layer:
\* x = self.forward_side_interpolater(x, c, mask, ids_restore)
SideInterpolater ==
    /\ si_rm # Idle /\ si_out = Idle
    /\ si_rm.blocks_run = si_splice_index
    /\ \E kind \in BranchKinds :
         si_out' = forward_side_interpolater(si_self, si_rm.x, si_in.c, si_rm.mask,
                                             si_rm.ids_restore, kind)
    /\ UNCHANGED <<si_self, si_in, si_rm, notSi>>

NextSide ==
    \/ SideMasking
    \/ SideBlock
    \/ SideInterpolater

SpecSide == InitSide /\ [][NextSide]_vars

\* forward_side_interpolater has returned.
si_returned == si_out # Idle /\ "raised" \notin DOMAIN si_out

\* The positions of sample n whose binary mask is m (0 is keep, 1 is remove).
si_positions(n, m) == {k \in DOMAIN si_rm.mask[n] : si_rm.mask[n][k] = m}

\* C13 as stated: after the side block, the blended result holds the side
\* block's output at every kept position (mask 0) and x_before at every
\* removed position (mask 1).
C13_KeptTakeSideBlock ==
    si_returned =>
        \A n \in DOMAIN si_out.x :
            /\ \A k \in si_positions(n, 0) : si_out.x[n][k] = si_out.sideblock_x[n][k]
            /\ \A k \in si_positions(n, 1) : si_out.x[n][k] = si_out.x_before[n][k]

\* C13, amended: after the side block, the blended result holds x_before at
\* every kept position (mask 0) and the side block's output at every removed
\* position (mask 1).
C13_RemovedTakeSideBlock ==
    si_returned =>
        \A n \in DOMAIN si_out.x :
            /\ \A k \in si_positions(n, 0) : si_out.x[n][k] = si_out.x_before[n][k]
            /\ \A k \in si_positions(n, 1) : si_out.x[n][k] = si_out.sideblock_x[n][k]

\* A trained side block has changed every token of a sequence of four, of
\* which sample 0 keeps some and removes some.
C13_Witness ==
    /\ si_returned
    /\ Cardinality(DOMAIN si_out.x[0]) = 4
    /\ si_positions(0, 0) # {} /\ si_positions(0, 1) # {}
    /\ \A k \in DOMAIN si_out.x[0] : si_out.sideblock_x[0][k] # si_out.x_before[0][k]

\* C14: the unshuffle inverts the gather of random_masking.  Before the
\* decoder positional embedding is added, the token at original position
\* ids_keep[k] is the k-th token of the reduced sequence, every position
\* whose mask is 1 holds the mask token, and with no block in between every
\* kept token is back at the position it was taken from.
C14_UnshuffleInvertsGather ==
    si_returned =>
        \A n \in DOMAIN si_out.unshuffled :
            /\ \A k \in DOMAIN si_rm.ids_keep[n] :
                 si_out.unshuffled[n][si_rm.ids_keep[n][k]] = si_rm.x[n][k]
            /\ \A pos \in si_positions(n, 1) :
                 si_out.unshuffled[n][pos] = si_self.mask_token
            /\ si_rm.blocks_run = 0 =>
                 \A pos \in si_positions(n, 0) :
                    si_out.unshuffled[n][pos] = si_in.x[n][pos]

\* Sample 0 of a sequence of four kept two tokens, in an order that is not
\* the original one (position 2 first), and no block ran before the splice.
C14_Witness ==
    /\ si_returned /\ si_rm.blocks_run = 0
    /\ Cardinality(DOMAIN si_in.x[0]) = 4
    /\ Cardinality(DOMAIN si_rm.ids_keep[0]) = 2
    /\ si_rm.ids_keep[0][0] = 2 /\ si_rm.ids_keep[0][1] = 0
    /\ si_out.unshuffled[0][2] = si_in.x[0][2]
    /\ si_out.unshuffled[0][1] = si_self.mask_token

\* The signed (row, column) offset between tokens i and j of an h x w window.
rb_offset(i, j) ==
    LET w == rb_in.window_size[1]
    IN <<(i \div w) - (j \div w), (i % w) - (j % w)>>

\* C15: for a window (h, w) the index buffer maps the token pair (i, j) to
\* (ri - rj + h - 1) * (2w - 1) + (ci - cj + w - 1); every entry lies in
\* 0 .. (2h - 1)(2w - 1) - 1, so that the 3 extra table rows are referenced by
\* no pair; two pairs share an index exactly when they share the signed
\* offset; and the buffer is the same in every state after construction,
\* through optimizer steps and the forward call.
C15_RelativePositionIndex ==
    rb_mod # Idle =>
        LET h == rb_in.window_size[0]
            w == rb_in.window_size[1]
            idx == rb_mod.relative_position_index
        IN /\ DOMAIN idx = Range(h * w)
           /\ \A i \in Range(h * w) :
                /\ DOMAIN idx[i] = Range(h * w)
                /\ \A j \in Range(h * w) :
                     /\ idx[i][j] = (rb_offset(i, j)[1] + h - 1) * (2 * w - 1)
                                      + (rb_offset(i, j)[2] + w - 1)
                     /\ idx[i][j] >= 0
                     /\ idx[i][j] <= (2 * h - 1) * (2 * w - 1) - 1
                     /\ idx[i][j] < rb_mod.num_relative_distance - 3
           \* one index per offset and one offset per index
           /\ LET pairs == {<<rb_offset(i, j), idx[i][j]>> :
                               i \in Range(h * w), j \in Range(h * w)}
              IN /\ Cardinality(pairs) = Cardinality({pr[1] : pr \in pairs})
                 /\ Cardinality(pairs) = Cardinality({pr[2] : pr \in pairs})

\* A 1 x 2 window (not square), after the forward call has read the buffer:
\* the pair (0, 1) has offset (0, -1) and index 0, the pair (1, 0) index 2.
C15_Witness ==
    /\ rb_mod # Idle /\ rb_out # Idle
    /\ rb_in.window_size[0] = 1 /\ rb_in.window_size[1] = 2
    /\ rb_mod.relative_position_index[0][1] = 0
    /\ rb_mod.relative_position_index[1][0] = 2
    /\ rb_mod.relative_position_index[0][0] = rb_mod.relative_position_index[1][1]

====
